---- MODULE Spec2Model ----
(***************************************************************************)
(* BMW sales analysis suite (src/code/bmw.py): a one-shot batch pipeline.  *)
(* One run of the script is modelled step by step (pc is the position in   *)
(* the script); the output directory and the SQLite database outlive a run *)
(* and are shared by successive runs.  The second variant of the script,   *)
(* 'BMW SALES DATA DEEP DIVE ANALYSIS SUITE.py', is modelled up to the end *)
(* of its aggregation step.                                                *)
(***************************************************************************)
EXTENDS Integers, Sequences, FiniteSets, TLC

(***************************************************************************)
(* Bounds of the model.                                                    *)
(***************************************************************************)
\* number of launches of the script in one behaviour
MaxRuns == 2
\* number of distinct values datetime.now() can format to (one per second)
MaxStamp == 2
\* number of data rows of an input file drawn for the row-wise derivations
MaxRows == 2
\* length of a model identifier drawn for categorize_model
MaxIdLen == 2
\* number of data rows of an input file drawn for the summary tables
MaxModels == 11
\* number of transmission kinds of one region drawn for the percentage shares
MaxTransmissions == 22

(***************************************************************************)
(* Cells.  A CSV cell is text (a sequence of characters); a DataFrame cell *)
(* is a missing value, a number, text, or the result of a division.        *)
(***************************************************************************)
NaN == [t |-> "nan", v |-> <<>>]
Num(n) == [t |-> "num", v |-> n]
Str(s) == [t |-> "str", v |-> s]
Cat(label) == [t |-> "cat", v |-> label]
Quot(p, d) == [t |-> "quot", v |-> <<p, d>>]
Inf(sign) == [t |-> "inf", v |-> sign]

IsNum(c) == c.t = "num"
IsNaN(c) == c.t = "nan"

Digits == {"0", "1", "2", "3", "4", "5", "6", "7", "8", "9"}

DigitVal(ch) ==
    CASE ch = "0" -> 0 [] ch = "1" -> 1 [] ch = "2" -> 2 [] ch = "3" -> 3
      [] ch = "4" -> 4 [] ch = "5" -> 5 [] ch = "6" -> 6 [] ch = "7" -> 7
      [] ch = "8" -> 8 [] ch = "9" -> 9

AllDigits(s) == Len(s) > 0 /\ \A k \in 1..Len(s) : s[k] \in Digits

\* text that the numeric parser accepts: an optional sign and decimal digits
IsNumericText(s) ==
    /\ Len(s) > 0
    /\ IF s[1] = "-" THEN AllDigits(Tail(s)) ELSE AllDigits(s)

RECURSIVE DigitsValue(_)
DigitsValue(s) ==
    IF Len(s) = 0 THEN 0
    ELSE 10 * DigitsValue(SubSeq(s, 1, Len(s) - 1)) + DigitVal(s[Len(s)])

ParseNumber(s) == IF s[1] = "-" THEN 0 - DigitsValue(Tail(s)) ELSE DigitsValue(s)

(***************************************************************************)
(* Columns.                                                                *)
(***************************************************************************)
numeric_cols == <<"Year", "Engine_Size_L", "Mileage_KM", "Price_USD", "Sales_Volume">>

NumericColSet == {numeric_cols[k] : k \in 1..Len(numeric_cols)}

\* the text columns the summary tables group or count by
TextCols == {"Model", "Region", "Fuel_Type", "Transmission", "Sales_Classification"}

\* the columns of the input file that the load, derive, aggregation and
\* analysis stages read
InputCols == TextCols \cup NumericColSet

\* the fixed reference year of Vehicle_Age
REFERENCE_YEAR == 2024

(***************************************************************************)
(* pd.read_csv: a column all of whose cells are empty or numeric text is   *)
(* parsed as numbers; any other column keeps its non-empty cells as text.  *)
(* An empty cell is a missing value in both cases.                         *)
(***************************************************************************)
ColumnIsNumeric(rows, col) ==
    \A k \in 1..Len(rows) : rows[k][col] = <<>> \/ IsNumericText(rows[k][col])

ReadCell(rows, col, s) ==
    IF s = <<>> THEN NaN
    ELSE IF ColumnIsNumeric(rows, col) THEN Num(ParseNumber(s))
    ELSE Str(s)

read_csv(raw) ==
    [cols |-> raw.cols,
     rows |-> [k \in 1..Len(raw.rows) |->
                 [col \in raw.cols |-> ReadCell(raw.rows, col, raw.rows[k][col])]]]

(***************************************************************************)
(* pd.to_numeric(errors='coerce') on one cell.                             *)
(***************************************************************************)
to_numeric(c) ==
    IF c.t = "str" THEN (IF IsNumericText(c.v) THEN Num(ParseNumber(c.v)) ELSE NaN)
    ELSE c

RECURSIVE CoerceColumns(_, _)
CoerceColumns(frame, cols) ==
    IF Len(cols) = 0 THEN frame
    ELSE CoerceColumns(
           [frame EXCEPT !.rows =
              [k \in 1..Len(frame.rows) |->
                 [frame.rows[k] EXCEPT ![Head(cols)] = to_numeric(@)]]],
           Tail(cols))

(***************************************************************************)
(* Derived metrics.                                                        *)
(***************************************************************************)
\* float division of two numeric cells, as numpy computes it
Divide(p, d) ==
    IF IsNaN(p) \/ IsNaN(d) THEN NaN
    ELSE IF d.v = 0
         THEN (IF p.v = 0 THEN NaN ELSE IF p.v > 0 THEN Inf(1) ELSE Inf(-1))
         ELSE Quot(p.v, d.v)

Add(c, n) == IF IsNaN(c) THEN NaN ELSE Num(c.v + n)

Price_per_KM(row) == Divide(row["Price_USD"], Add(row["Mileage_KM"], 1))

Vehicle_Age(row) ==
    IF IsNaN(row["Year"]) THEN NaN ELSE Num(REFERENCE_YEAR - row["Year"].v)

startswith(s, ch) == Len(s) > 0 /\ s[1] = ch

categorize_model_nocase(model) ==
    IF IsNaN(model) THEN "Other"
    ELSE IF startswith(model.v, "X") \/ startswith(model.v, "x") THEN "SUV"
    ELSE IF startswith(model.v, "i") \/ startswith(model.v, "I") THEN "i-Series"
    ELSE IF startswith(model.v, "M") \/ startswith(model.v, "m") THEN "M-Series"
    ELSE "Sedan"

\* Model cells of the inputs drawn here are text or missing, so str(model)
\* leaves the text as it is
categorize_model(model) ==
    IF IsNaN(model) THEN "Other"
    ELSE IF startswith(model.v, "X") THEN "SUV"
    ELSE IF startswith(model.v, "i") THEN "i-Series"
    ELSE IF startswith(model.v, "M") THEN "M-Series"
    ELSE "Sedan"

DerivedCols == {"Price_per_KM", "Vehicle_Age", "Model_Segment"}

DeriveRow_InPlace(row) ==
    [col \in DOMAIN row \cup DerivedCols |->
       IF col = "Price_per_KM" THEN Price_per_KM(row)
       ELSE IF col = "Vehicle_Age" THEN Vehicle_Age(row)
       ELSE IF col = "Model_Segment" THEN Cat(categorize_model(row["Model"]))
       ELSE IF col = "Mileage_KM" THEN Add(row[col], 1)
       ELSE row[col]]

DeriveRow(row) ==
    [col \in DOMAIN row \cup DerivedCols |->
       IF col = "Price_per_KM" THEN Price_per_KM(row)
       ELSE IF col = "Vehicle_Age" THEN Vehicle_Age(row)
       ELSE IF col = "Model_Segment" THEN Cat(categorize_model(row["Model"]))
       ELSE row[col]]

Derive(frame) ==
    [cols |-> frame.cols \cup DerivedCols,
     rows |-> [k \in 1..Len(frame.rows) |-> DeriveRow(frame.rows[k])]]

(***************************************************************************)
(* Input files drawn for the runs.  Text is written character by           *)
(* character.                                                              *)
(***************************************************************************)
RawRow(model, year, engine, mileage, price, sales, category) ==
    [col \in InputCols |->
       CASE col = "Model" -> model
         [] col = "Year" -> year
         [] col = "Engine_Size_L" -> engine
         [] col = "Mileage_KM" -> mileage
         [] col = "Price_USD" -> price
         [] col = "Sales_Volume" -> sales
         [] col = "Region" -> category[1]
         [] col = "Fuel_Type" -> category[2]
         [] col = "Transmission" -> category[3]
         [] col = "Sales_Classification" -> category[4]]

\* region, fuel type, transmission, sales classification
High == <<"H", "i", "g", "h">>
Low == <<"L", "o", "w">>
Petrol == <<"P", "e", "t", "r", "o", "l">>
Automatic == <<"A", "u", "t", "o", "m", "a", "t", "i", "c">>
Manual == <<"M", "a", "n", "u", "a", "l">>
Asia == <<"A", "s", "i", "a">>
Europe == <<"E", "u", "r", "o", "p", "e">>

RawTable(rows) == [cols |-> InputCols, rows |-> rows]

RowX5 ==
    RawRow(<<"X", "5">>, <<"2", "0", "2", "0">>, <<"3">>, <<"1", "0">>, <<"5", "0">>,
           <<"5">>, <<Europe, Petrol, Automatic, High>>)
RowI3 ==
    RawRow(<<"i", "3">>, <<"2", "0", "2", "1">>, <<"2">>, <<"0">>, <<"3", "0">>,
           <<"7">>, <<Asia, Petrol, Manual, Low>>)
\* sells as many as RowX5, in another region
RowM3 ==
    RawRow(<<"M", "3">>, <<"2", "0", "1", "9">>, <<"3">>, <<"5">>, <<"6", "0">>,
           <<"5">>, <<Asia, Petrol, Automatic, High>>)
\* a row whose Sales_Volume cell is not a number
RowBadSales ==
    RawRow(<<"M", "3">>, <<"2", "0", "1", "9">>, <<"3">>, <<"5">>, <<"6", "0">>,
           <<"x">>, <<Asia, Petrol, Automatic, High>>)
\* a row whose other numeric cells are not numbers and whose text cells are empty
RowBadOther ==
    RawRow(<<"3", "2", "0", "i">>, <<"x">>, <<"x">>, <<"x">>, <<"x">>,
           <<"4">>, <<<<>>, <<>>, <<>>, <<>>>>)

SampleTables ==
    { RawTable(<<>>),
      RawTable(<<RowX5>>),
      RawTable(<<RowX5, RowI3>>),
      RawTable(<<RowX5, RowX5>>),
      RawTable(<<RowX5, RowM3>>),
      RawTable(<<RowX5, RowBadSales>>),
      RawTable(<<RowI3, RowBadOther>>) }

(***************************************************************************)
(* Paths.  A file of the output directory is named by its fixed name and,  *)
(* for the PDF report, the timestamp formatted into the name (0: none).    *)
(***************************************************************************)
CSV_FILE_CANDIDATES ==
    <<"BMW sales data (2010-2024) (1).csv", "BMW sales data (2010-2024) (1)">>

CandidateSet == {CSV_FILE_CANDIDATES[k] : k \in 1..Len(CSV_FILE_CANDIDATES)}

Path(name) == [name |-> name, stamp |-> 0]

raw_excel_path == Path("Raw_BMW_Data.xlsx")
DB_FILE == Path("BMW_Sales.db")
dashboard_html_path == Path("BMW_Interactive_Dashboard.html")
dashboard_png_path == Path("BMW_Interactive_Dashboard.png")
excel_file == Path("BMW_Sales_Comprehensive_Analysis.xlsx")

pdf_path_fixed(timestamp) == [name |-> "BMW_Sales_Analysis_Report.pdf", stamp |-> 0]

pdf_path(timestamp) == [name |-> "BMW_Sales_Analysis_Report_.pdf", stamp |-> timestamp]

Timestamps == 1..MaxStamp

IsPdf(path) == path.stamp > 0

\* the two variants of the script
BmwPy == "bmw.py"
Suite == "BMW SALES DATA DEEP DIVE ANALYSIS SUITE.py"

(***************************************************************************)
(* State.                                                                  *)
(***************************************************************************)
VARIABLES
    script,       \* the file of the script that is run (__file__)
    pc,           \* position of the running script, or how the last run ended
    run,          \* number of launches so far; identifies what a run wrote
    disk,         \* the script directory: which candidates exist, their data
    CSV_FILE,     \* the resolved input path, "None" before resolution
    df,           \* the in-memory table
    conn,         \* the SQLite connection: "none", "open" or "closed"
    queries,      \* the summary tables, empty before aggregation
    engine_trend, \* the mean engine size of each year, empty before the analysis
    console,      \* the lines printed by the run, in order
    traceback,    \* the stage an uncaught exception was raised in, or ""
    exit_status,  \* <<>> while running, <<status>> once the process ended
    files,        \* OUTPUT_DIR: path -> [run that wrote it, embedded image]
    db            \* DB_FILE's relations: relation name -> table

vars == <<script, pc, run, disk, CSV_FILE, df, conn, queries, engine_trend, console,
          traceback, exit_status, files, db>>

NoFrame == [cols |-> {}, rows |-> <<>>]
NoQueries == [q \in {} |-> <<>>]
NoFiles == [p \in {} |-> [run |-> 0, image |-> 0]]
NoRelations == [r \in {} |-> NoFrame]

Written(path, by, image) == (path :> [run |-> by, image |-> image])

Emit(lines) == console' = console \o lines

Raise(stage) ==
    /\ pc' = "crashed"
    /\ traceback' = stage
    /\ exit_status' = <<1>>

Init ==
    /\ pc = "idle"
    /\ run = 0
    /\ script = BmwPy
    /\ disk = [exists |-> {}, content |-> RawTable(<<>>)]
    /\ CSV_FILE = "None"
    /\ df = NoFrame
    /\ conn = "none"
    /\ queries = NoQueries
    /\ engine_trend = <<>>
    /\ console = <<>>
    /\ traceback = ""
    /\ exit_status = <<>>
    /\ files = NoFiles
    /\ db = NoRelations

(***************************************************************************)
(* The statements of the script run top to bottom, in this order.          *)
(***************************************************************************)
StageOrder_WorkbookFirst ==
    <<"resolve", "load_data", "coerce", "derive", "raw_export", "to_sql",
      "run_sql_queries", "analysis", "workbook", "render", "write_image",
      "pdf", "summary", "close", "done">>

StageOrder ==
    <<"resolve", "load_data", "coerce", "derive", "raw_export", "to_sql",
      "run_sql_queries", "analysis", "render", "write_image", "workbook",
      "pdf", "summary", "close", "done">>

After(stage) ==
    StageOrder[(CHOOSE k \in 1..Len(StageOrder) : StageOrder[k] = stage) + 1]

(***************************************************************************)
(* A launch of the script.  The user may have changed the script directory *)
(* since the last run; the process starts with fresh memory.               *)
(***************************************************************************)
Launch ==
    /\ pc \in {"idle", "done", "crashed", "exited"}
    /\ run < MaxRuns
    /\ \E ex \in SUBSET CandidateSet, tbl \in SampleTables :
         disk' = [exists |-> ex,
                  content |-> IF ex = {} THEN RawTable(<<>>) ELSE tbl]
    /\ run' = run + 1
    /\ pc' = Head(StageOrder)
    /\ CSV_FILE' = "None"
    /\ df' = NoFrame
    /\ conn' = "none"
    /\ queries' = NoQueries
    /\ engine_trend' = <<>>
    /\ console' = <<>>
    /\ traceback' = ""
    /\ exit_status' = <<>>
    /\ UNCHANGED <<script, files, db>>

(***************************************************************************)
(* Input file resolution.                                                  *)
(***************************************************************************)
RECURSIVE LastExisting(_, _)
LastExisting(candidates, existing) ==
    IF Len(candidates) = 0 THEN "None"
    ELSE IF candidates[Len(candidates)] \in existing THEN candidates[Len(candidates)]
    ELSE LastExisting(SubSeq(candidates, 1, Len(candidates) - 1), existing)

RECURSIVE FirstExisting(_, _)
FirstExisting(candidates, existing) ==
    IF Len(candidates) = 0 THEN "None"
    ELSE IF Head(candidates) \in existing THEN Head(candidates)
    ELSE FirstExisting(Tail(candidates), existing)

ResolveFound ==
    /\ pc = "resolve"
    /\ FirstExisting(CSV_FILE_CANDIDATES, disk.exists) # "None"
    /\ CSV_FILE' = FirstExisting(CSV_FILE_CANDIDATES, disk.exists)
    /\ Emit(<<"BMW SALES DATA DEEP DIVE ANALYSIS (Enhanced Visuals)">>)
    /\ pc' = After("resolve")
    /\ UNCHANGED <<script, engine_trend, run, disk, df, conn, queries, traceback, exit_status, files, db>>

ResolveMissing ==
    /\ pc = "resolve"
    /\ FirstExisting(CSV_FILE_CANDIDATES, disk.exists) = "None"
    /\ Emit(<<"ERROR: BMW data file not found!", "Expected one of:">>
             \o CSV_FILE_CANDIDATES)
    /\ pc' = "exited"
    /\ exit_status' = <<1>>
    /\ UNCHANGED <<script, engine_trend, run, disk, CSV_FILE, df, conn, queries, traceback, files, db>>

(***************************************************************************)
(* load_data: read the file and print the overview.  The total is printed  *)
(* with a thousands separator, which only a number can be formatted with.  *)
(***************************************************************************)
SumIsNumber(frame, col) ==
    \A k \in 1..Len(frame.rows) : frame.rows[k][col].t # "str"

LoadReturns ==
    /\ pc = "load_data"
    /\ SumIsNumber(read_csv(disk.content), "Sales_Volume")
    /\ df' = read_csv(disk.content)
    /\ Emit(<<"1. DATA OVERVIEW", "Dataset shape:", "Total records:",
              "Total sales volume:">>)
    /\ pc' = After("load_data")
    /\ UNCHANGED <<script, engine_trend, run, disk, CSV_FILE, conn, queries, traceback, exit_status, files, db>>

LoadRaises ==
    /\ pc = "load_data"
    /\ ~SumIsNumber(read_csv(disk.content), "Sales_Volume")
    /\ Emit(<<"1. DATA OVERVIEW", "Dataset shape:", "Total records:">>)
    /\ Raise("load_data")
    /\ UNCHANGED <<script, engine_trend, run, disk, CSV_FILE, df, conn, queries, files, db>>

(***************************************************************************)
(* Numeric coercion loop and derived metrics.                              *)
(***************************************************************************)
Coerce ==
    /\ pc = "coerce"
    /\ df' = CoerceColumns(df, numeric_cols)
    /\ pc' = After("coerce")
    /\ UNCHANGED <<script, engine_trend, run, disk, CSV_FILE, conn, queries, console, traceback,
                   exit_status, files, db>>

DeriveMetrics ==
    /\ pc = "derive"
    /\ df' = Derive(df)
    /\ pc' = After("derive")
    /\ UNCHANGED <<script, engine_trend, run, disk, CSV_FILE, conn, queries, console, traceback,
                   exit_status, files, db>>

(***************************************************************************)
(* Raw export and SQLite snapshot.                                         *)
(***************************************************************************)
RawExport ==
    /\ pc = "raw_export"
    /\ files' = Written(raw_excel_path, run, 0) @@ files
    /\ Emit(<<"Raw data saved">>)
    /\ pc' = After("raw_export")
    /\ UNCHANGED <<script, engine_trend, run, disk, CSV_FILE, df, conn, queries, traceback, exit_status, db>>

to_sql_append(database, name, frame) ==
    IF name \in DOMAIN database
    THEN (name :> [cols |-> database[name].cols \cup frame.cols,
                   rows |-> database[name].rows \o frame.rows]) @@ database
    ELSE (name :> frame) @@ database

\* df.to_sql(name, conn, if_exists='replace', index=False)
to_sql(database, name, frame) == (name :> frame) @@ database

ToSql ==
    /\ pc = "to_sql"
    /\ conn' = "open"
    /\ files' = Written(DB_FILE, run, 0) @@ files
    /\ db' = to_sql(db, "bmw_sales", df)
    /\ Emit(<<"SQLite database created">>)
    /\ pc' = After("to_sql")
    /\ UNCHANGED <<script, engine_trend, run, disk, CSV_FILE, df, queries, traceback, exit_status>>

(***************************************************************************)
(* Aggregation: the five summary tables are read from the snapshot.        *)
(***************************************************************************)
\* the characters in the order of their codes (BINARY collation)
Alphabet ==
    <<"-", "0", "1", "2", "3", "4", "5", "6", "7", "8", "9",
      "A", "B", "C", "D", "E", "F", "G", "H", "I", "J", "K", "L", "M", "N", "O",
      "P", "Q", "R", "S", "T", "U", "V", "W", "X", "Y", "Z",
      "a", "b", "c", "d", "e", "f", "g", "h", "i", "j", "k", "l", "m", "n", "o",
      "p", "q", "r", "s", "t", "u", "v", "w", "x", "y", "z">>

Ord(ch) == CHOOSE k \in 1..Len(Alphabet) : Alphabet[k] = ch

RECURSIVE TextLess(_, _)
TextLess(a, b) ==
    IF Len(b) = 0 THEN FALSE
    ELSE IF Len(a) = 0 THEN TRUE
    ELSE IF Head(a) = Head(b) THEN TextLess(Tail(a), Tail(b))
    ELSE Ord(Head(a)) < Ord(Head(b))

\* SQLite's sort order of values: NULL, then numbers, then text
StorageClass(c) == CASE c.t = "nan" -> 0 [] c.t = "num" -> 1 [] c.t = "str" -> 2

SqlLess(a, b) ==
    IF StorageClass(a) # StorageClass(b) THEN StorageClass(a) < StorageClass(b)
    ELSE CASE a.t = "nan" -> FALSE
           [] a.t = "num" -> a.v < b.v
           [] a.t = "str" -> TextLess(a.v, b.v)

\* the rows of a group: the positions whose cells equal the key
GroupOf(rows, cols, key) ==
    {k \in 1..Len(rows) : \A c \in 1..Len(cols) : rows[k][cols[c]] = key[c]}

GroupKeys(rows, cols) ==
    {[c \in 1..Len(cols) |-> rows[k][cols[c]]] : k \in 1..Len(rows)}

NonNull(rows, group, col) == {k \in group : IsNum(rows[k][col])}

\* the sum of the cells of col over the rows lo..hi that are in the group
RECURSIVE RangeTotal(_, _, _, _, _)
RangeTotal(rows, group, col, lo, hi) ==
    IF lo > hi THEN 0
    ELSE IF lo = hi THEN (IF lo \in group THEN rows[lo][col].v ELSE 0)
    ELSE RangeTotal(rows, group, col, lo, (lo + hi) \div 2)
         + RangeTotal(rows, group, col, ((lo + hi) \div 2) + 1, hi)

Total(rows, group, col) == RangeTotal(rows, group, col, 1, Len(rows))

SqlSum_Strict(rows, group, col) ==
    IF NonNull(rows, group, col) # group THEN NaN
    ELSE Num(Total(rows, NonNull(rows, group, col), col))

\* SUM(col): NULL when the group has no non-NULL value
SqlSum(rows, group, col) ==
    IF NonNull(rows, group, col) = {} THEN NaN
    ELSE Num(Total(rows, NonNull(rows, group, col), col))

\* AVG(col): over the non-NULL values, NULL when there is none
SqlAvg(rows, group, col) ==
    IF NonNull(rows, group, col) = {} THEN NaN
    ELSE Quot(Total(rows, NonNull(rows, group, col), col),
              Cardinality(NonNull(rows, group, col)))

SqlCount(group) == Num(Cardinality(group))

HighCount_Volume(rows, group) ==
    Num(Total(rows, {k \in NonNull(rows, group, "Sales_Volume") :
                       rows[k]["Sales_Classification"] = Str(High)}, "Sales_Volume"))

\* SUM(CASE WHEN Sales_Classification = 'High' THEN 1 ELSE 0 END)
HighCount(rows, group) ==
    Num(Cardinality({k \in group : rows[k]["Sales_Classification"] = Str(High)}))

RoundPct_Truncated(count, total) == Quot((10000 * count) \div total, 100)

\* ROUND(100.0 * count / total, 2), in hundredths, halves away from zero
RoundPct(count, total) == Quot((20000 * count + total) \div (2 * total), 100)

\* ORDER BY: every arrangement of the result rows that respects the order;
\* rows the order does not tell apart come out in an unspecified order
Orderings(S, Before(_, _)) ==
    LET arrange[T \in SUBSET S] ==
          IF T = {} THEN {<<>>}
          ELSE UNION {{<<x>> \o seq : seq \in arrange[T \ {x}]} :
                        x \in {y \in T : \A z \in T : ~Before(z, y)}}
    IN arrange[S]

TopN == 10

Limit(seq, n) == SubSeq(seq, 1, IF Len(seq) < n THEN Len(seq) ELSE n)

TotalSalesAsc(a, b) == SqlLess(a.Total_Sales, b.Total_Sales)

TotalSalesDesc(a, b) == SqlLess(b.Total_Sales, a.Total_Sales)

\* the result rows of GROUP BY Model, before ORDER BY and LIMIT
ModelGroups(rows) ==
    {[Model |-> key[1],
      Total_Sales |-> SqlSum(rows, GroupOf(rows, <<"Model">>, key), "Sales_Volume"),
      Avg_Price |-> SqlAvg(rows, GroupOf(rows, <<"Model">>, key), "Price_USD"),
      Transaction_Count |-> SqlCount(GroupOf(rows, <<"Model">>, key))] :
        key \in GroupKeys(rows, <<"Model">>)}

top_models(rows) ==
    {Limit(seq, TopN) : seq \in Orderings(ModelGroups(rows), TotalSalesDesc)}

regional_performance(rows) ==
    Orderings(
        {[Region |-> key[1],
          Total_Sales |-> SqlSum(rows, GroupOf(rows, <<"Region">>, key), "Sales_Volume"),
          Avg_Price |-> SqlAvg(rows, GroupOf(rows, <<"Region">>, key), "Price_USD"),
          Avg_Engine |-> SqlAvg(rows, GroupOf(rows, <<"Region">>, key), "Engine_Size_L"),
          Transaction_Count |-> SqlCount(GroupOf(rows, <<"Region">>, key)),
          High_Sales_Count |-> HighCount(rows, GroupOf(rows, <<"Region">>, key))] :
            key \in GroupKeys(rows, <<"Region">>)},
        TotalSalesDesc)

fuel_analysis(rows) ==
    Orderings(
        {[Fuel_Type |-> key[1],
          Total_Sales |-> SqlSum(rows, GroupOf(rows, <<"Fuel_Type">>, key), "Sales_Volume"),
          Avg_Price |-> SqlAvg(rows, GroupOf(rows, <<"Fuel_Type">>, key), "Price_USD"),
          Transaction_Count |-> SqlCount(GroupOf(rows, <<"Fuel_Type">>, key))] :
            key \in GroupKeys(rows, <<"Fuel_Type">>)},
        TotalSalesDesc)

YearAsc(a, b) == SqlLess(a.Year, b.Year)

yearly_trends(rows) ==
    Orderings(
        {[Year |-> key[1],
          Total_Sales |-> SqlSum(rows, GroupOf(rows, <<"Year">>, key), "Sales_Volume"),
          Avg_Price |-> SqlAvg(rows, GroupOf(rows, <<"Year">>, key), "Price_USD"),
          Avg_Mileage |-> SqlAvg(rows, GroupOf(rows, <<"Year">>, key), "Mileage_KM"),
          Avg_Engine |-> SqlAvg(rows, GroupOf(rows, <<"Year">>, key), "Engine_Size_L"),
          Transaction_Count |-> SqlCount(GroupOf(rows, <<"Year">>, key))] :
            key \in GroupKeys(rows, <<"Year">>)},
        YearAsc)

RegionThenCountDesc(a, b) ==
    \/ SqlLess(a.Region, b.Region)
    \/ a.Region = b.Region /\ SqlLess(b.Count, a.Count)

transmission_by_region(rows) ==
    Orderings(
        {[Region |-> key[1],
          Transmission |-> key[2],
          Count |-> SqlCount(GroupOf(rows, <<"Region", "Transmission">>, key)),
          Pct |-> RoundPct(Cardinality(GroupOf(rows, <<"Region", "Transmission">>, key)),
                           Cardinality(GroupOf(rows, <<"Region">>, <<key[1]>>)))] :
            key \in GroupKeys(rows, <<"Region", "Transmission">>)},
        RegionThenCountDesc)

\* the results the five queries can return on the snapshot
run_sql_queries(database) ==
    [top_models : top_models(database["bmw_sales"].rows),
     regional_performance : regional_performance(database["bmw_sales"].rows),
     fuel_analysis : fuel_analysis(database["bmw_sales"].rows),
     yearly_trends : yearly_trends(database["bmw_sales"].rows),
     transmission_by_region : transmission_by_region(database["bmw_sales"].rows)]

QueriesReturn ==
    /\ pc = "run_sql_queries"
    /\ "bmw_sales" \in DOMAIN db
    /\ queries' \in run_sql_queries(db)
    /\ pc' = After("run_sql_queries")
    /\ UNCHANGED <<script, engine_trend, run, disk, CSV_FILE, df, conn, console, traceback, exit_status,
                   files, db>>

\* the database engine reports an error (missing relation, locked or
\* unreadable file)
QueriesRaise ==
    /\ pc = "run_sql_queries"
    /\ Raise("run_sql_queries")
    /\ UNCHANGED <<script, engine_trend, run, disk, CSV_FILE, df, conn, queries, console, files, db>>

(***************************************************************************)
(* Statistical analysis.  linregress rejects empty input and input whose   *)
(* x values are all identical; the engine-size trend indexes the first and *)
(* last group of a group-by on Year, which has no group when every Year is *)
(* missing.                                                                *)
(***************************************************************************)
LinregressRaises(frame) ==
    \/ Len(frame.rows) = 0
    \/ /\ Len(frame.rows) > 1
       /\ \A k \in 1..Len(frame.rows) :
            /\ IsNum(frame.rows[k]["Mileage_KM"])
            /\ frame.rows[k]["Mileage_KM"] = frame.rows[1]["Mileage_KM"]

\* df.groupby(by)[col].mean(): one entry per value of the key present in
\* the table, in ascending order of the key; rows with a missing key are left
\* out, and the mean skips missing cells
GroupMean(frame, by, col, key) ==
    LET group == {k \in 1..Len(frame.rows) : frame.rows[k][by] = key}
    IN [key |-> key, mean |-> SqlAvg(frame.rows, group, col)]

FirstRowOf(frame, by, key) ==
    CHOOSE k \in 1..Len(frame.rows) :
       /\ frame.rows[k][by] = key
       /\ \A j \in 1..(k - 1) : frame.rows[j][by] # key

groupby_mean_unsorted(frame, by, col) ==
    LET entries == {GroupMean(frame, by, col, frame.rows[k][by]) :
                      k \in {j \in 1..Len(frame.rows) : IsNum(frame.rows[j][by])}}
        Earlier(a, b) == FirstRowOf(frame, by, a.key) < FirstRowOf(frame, by, b.key)
    IN CHOOSE seq \in Orderings(entries, Earlier) : TRUE

groupby_mean(frame, by, col) ==
    LET entries == {GroupMean(frame, by, col, frame.rows[k][by]) :
                      k \in {j \in 1..Len(frame.rows) : IsNum(frame.rows[j][by])}}
        Ascending(a, b) == a.key.v < b.key.v
    IN CHOOSE seq \in Orderings(entries, Ascending) : TRUE

TrendRaises(frame) ==
    \A k \in 1..Len(frame.rows) : IsNaN(frame.rows[k]["Year"])

AnalysisRaises(frame) == LinregressRaises(frame) \/ TrendRaises(frame)

AnalysisReturns ==
    /\ pc = "analysis"
    /\ ~AnalysisRaises(df)
    /\ engine_trend' = groupby_mean(df, "Year", "Engine_Size_L")
    /\ Emit(<<"8. CORRELATION ANALYSIS", "Correlation Matrix:",
              "Regression: Price vs Mileage", "T-test: High vs Low sales prices",
              "Engine size trend (2010-2024):">>)
    /\ pc' = After("analysis")
    /\ UNCHANGED <<script, run, disk, CSV_FILE, df, conn, queries, traceback, exit_status,
                   files, db>>

AnalysisFault_Caught ==
    /\ pc = "analysis"
    /\ AnalysisRaises(df)
    /\ Emit(<<"8. CORRELATION ANALYSIS", "Correlation Matrix:">>)
    /\ pc' = After("analysis")
    /\ UNCHANGED <<script, engine_trend, run, disk, CSV_FILE, df, conn, queries, traceback, exit_status,
                   files, db>>

AnalysisFault ==
    /\ pc = "analysis"
    /\ AnalysisRaises(df)
    /\ Emit(<<"8. CORRELATION ANALYSIS", "Correlation Matrix:">>)
    /\ Raise("perform_statistical_analysis")
    /\ UNCHANGED <<script, engine_trend, run, disk, CSV_FILE, df, conn, queries, files, db>>

(***************************************************************************)
(* Rendering: the interactive dashboard, then the optional static image.   *)
(***************************************************************************)
RenderHtml ==
    /\ pc = "render"
    /\ files' = Written(dashboard_html_path, run, 0) @@ files
    /\ Emit(<<"10. GENERATING POWER BI-LIKE INTERACTIVE VISUALS...",
              "Interactive HTML dashboard saved">>)
    /\ pc' = After("render")
    /\ UNCHANGED <<script, engine_trend, run, disk, CSV_FILE, df, conn, queries, traceback, exit_status, db>>

WriteImageSaved ==
    /\ pc = "write_image"
    /\ files' = Written(dashboard_png_path, run, 0) @@ files
    /\ Emit(<<"Static dashboard image saved">>)
    /\ pc' = After("write_image")
    /\ UNCHANGED <<script, engine_trend, run, disk, CSV_FILE, df, conn, queries, traceback, exit_status, db>>

WriteImageUncaught ==
    /\ pc = "write_image"
    /\ Raise("write_image")
    /\ UNCHANGED <<script, engine_trend, run, disk, CSV_FILE, df, conn, queries, console, files, db>>

\* pio.write_image raises: the except clause prints a warning and goes on
WriteImageFailed ==
    /\ pc = "write_image"
    /\ Emit(<<"Could not save static dashboard image.", "   Error:">>)
    /\ pc' = After("write_image")
    /\ UNCHANGED <<script, engine_trend, run, disk, CSV_FILE, df, conn, queries, traceback, exit_status,
                   files, db>>

(***************************************************************************)
(* Workbook, PDF report, final summary.                                    *)
(***************************************************************************)
Workbook ==
    /\ pc = "workbook"
    /\ files' = Written(excel_file, run, 0) @@ files
    /\ Emit(<<"Excel analysis saved">>)
    /\ pc' = After("workbook")
    /\ UNCHANGED <<script, engine_trend, run, disk, CSV_FILE, df, conn, queries, traceback, exit_status, db>>

\* the run whose image the report embeds, 0 when it has no dashboard page
DashboardPage(outdir) ==
    IF dashboard_png_path \in DOMAIN outdir THEN outdir[dashboard_png_path].run ELSE 0

generate_pdf_report ==
    /\ pc = "pdf"
    /\ \E timestamp \in Timestamps :
         files' = Written(pdf_path(timestamp), run, DashboardPage(files)) @@ files
    /\ Emit(IF dashboard_png_path \in DOMAIN files
            THEN <<"PDF report generated">>
            ELSE <<"Dashboard image not found, skipping in PDF.",
                   "PDF report generated">>)
    /\ pc' = After("pdf")
    /\ UNCHANGED <<script, engine_trend, run, disk, CSV_FILE, df, conn, queries, traceback, exit_status, db>>

FinalSummary ==
    /\ pc = "summary"
    /\ Emit(<<"KEY FINDINGS SUMMARY", "ANALYSIS COMPLETE">>)
    /\ pc' = After("summary")
    /\ UNCHANGED <<script, engine_trend, run, disk, CSV_FILE, df, conn, queries, traceback, exit_status,
                   files, db>>

Close ==
    /\ pc = "close"
    /\ conn' = "closed"
    /\ pc' = After("close")
    /\ exit_status' = <<0>>
    /\ UNCHANGED <<script, engine_trend, run, disk, CSV_FILE, df, queries, console, traceback, files, db>>

(***************************************************************************)
(* Specification of successive runs.                                       *)
(***************************************************************************)
Step ==
    \/ ResolveFound \/ ResolveMissing
    \/ LoadReturns \/ LoadRaises
    \/ Coerce \/ DeriveMetrics
    \/ RawExport \/ ToSql
    \/ QueriesReturn \/ QueriesRaise
    \/ AnalysisReturns \/ AnalysisFault
    \/ RenderHtml \/ WriteImageSaved \/ WriteImageFailed
    \/ Workbook \/ generate_pdf_report \/ FinalSummary \/ Close

Next == Launch \/ Step

Spec == Init /\ [][Next]_vars

\* a launched script keeps executing until its process ends; whether the
\* user launches it again is left open
FairSpec == Spec /\ WF_vars(Step)

(***************************************************************************)
(* Specification of the load and derive stages of one run, over input      *)
(* files whose rows vary the model identifier, the distance and the price. *)
(***************************************************************************)
ModelIds ==
    { <<"X", "5">>, <<"i", "3">>, <<"M", "3">>, <<"3", "2", "0", "i">>,
      <<"x", "5">>, <<"m", "3">>, <<"I", "3">>, <<"i", "X">>, <<"M", "i">>, <<>> }

MileageTexts == { <<"0">>, <<"-", "1">>, <<"9">>, <<"x">>, <<>> }

PriceTexts == { <<"3", "0">>, <<"0">>, <<"x">> }

DeriveRows ==
    {RawRow(m, <<"2", "0", "2", "0">>, <<"2">>, <<"9">>, <<"3", "0">>, <<"5">>,
            <<Europe, Petrol, Automatic, High>>) : m \in ModelIds}
    \cup {RawRow(<<"X", "5">>, <<"2", "0", "2", "0">>, <<"2">>, km, usd, <<"5">>,
                 <<Asia, Petrol, Manual, Low>>) :
             km \in MileageTexts, usd \in PriceTexts}
    \cup {RowBadSales, RowBadOther}

RECURSIVE TablesOfLength(_)
TablesOfLength(n) ==
    IF n = 0 THEN {<<>>}
    ELSE {Append(t, r) : t \in TablesOfLength(n - 1), r \in DeriveRows}

DeriveTables == UNION {{RawTable(t) : t \in TablesOfLength(n)} : n \in 0..MaxRows}

InitDerive ==
    /\ pc = Head(StageOrder)
    /\ run = 1
    /\ script = BmwPy
    /\ \E tbl \in DeriveTables :
         disk = [exists |-> {CSV_FILE_CANDIDATES[1]}, content |-> tbl]
    /\ CSV_FILE = "None"
    /\ df = NoFrame
    /\ conn = "none"
    /\ queries = NoQueries
    /\ engine_trend = <<>>
    /\ console = <<>>
    /\ traceback = ""
    /\ exit_status = <<>>
    /\ files = NoFiles
    /\ db = NoRelations

NextDerive == ResolveFound \/ LoadReturns \/ LoadRaises \/ Coerce \/ DeriveMetrics

SpecDerive == InitDerive /\ [][NextDerive]_vars

(***************************************************************************)
(* Specification of the segment column alone: categorize_model applied to  *)
(* every value a Model cell of the in-memory table can hold, a missing     *)
(* value or a string of any length from zero up.                           *)
(***************************************************************************)
SegmentChars == {"X", "i", "M", "x", "m", "3", "5"}

RECURSIVE IdentifiersOfLength(_)
IdentifiersOfLength(n) ==
    IF n = 0 THEN {<<>>}
    ELSE {Append(s, ch) : s \in IdentifiersOfLength(n - 1), ch \in SegmentChars}

ModelValues == {NaN} \cup {Str(s) : s \in UNION {IdentifiersOfLength(n) : n \in 0..MaxIdLen}}

InMemoryRow(model) ==
    [CoerceColumns(read_csv(RawTable(<<RowX5>>)), numeric_cols).rows[1]
       EXCEPT !["Model"] = model]

InitSegment ==
    /\ pc = "derive"
    /\ run = 1
    /\ script = BmwPy
    /\ disk = [exists |-> {CSV_FILE_CANDIDATES[1]}, content |-> RawTable(<<RowX5>>)]
    /\ CSV_FILE = CSV_FILE_CANDIDATES[1]
    /\ \E model \in ModelValues :
         df = [cols |-> InputCols, rows |-> <<InMemoryRow(model)>>]
    /\ conn = "none"
    /\ queries = NoQueries
    /\ engine_trend = <<>>
    /\ console = <<>>
    /\ traceback = ""
    /\ exit_status = <<>>
    /\ files = NoFiles
    /\ db = NoRelations

NextSegment == DeriveMetrics

SpecSegment == InitSegment /\ [][NextSegment]_vars

(***************************************************************************)
(* Specification of one run up to the end of the statistical analysis,     *)
(* over input files of up to MaxModels rows: more models than the top      *)
(* table keeps, models with equal sales, models with several rows, and     *)
(* rows with empty cells.                                                  *)
(***************************************************************************)
RECURSIVE Numeral(_)
Numeral(n) ==
    IF n < 10 THEN <<Alphabet[n + 2]>>
    ELSE Append(Numeral(n \div 10), Alphabet[(n % 10) + 2])

\* "MA", "MB", ...
ModelName(k) == <<"M", Alphabet[11 + k]>>

Patterns == {"ascending", "tied", "grouped", "gaps"}

AggregateRow(k, pattern) ==
    RawRow(
      CASE pattern = "grouped" -> ModelName(((k - 1) % 3) + 1)
        [] pattern = "gaps" -> (IF k % 4 = 0 THEN <<>> ELSE ModelName((k + 1) \div 2))
        [] OTHER -> ModelName(k),
      IF pattern = "gaps" /\ k % 4 = 2 THEN <<>> ELSE Numeral(2010 + ((3 * k) % 5)),
      Numeral(1 + (k % 4)),
      Numeral(k),
      Numeral(10 * k),
      CASE pattern = "tied" -> Numeral((k + 1) \div 2)
        [] pattern = "gaps" -> (IF k % 3 = 1 THEN <<>> ELSE Numeral(k))
        [] OTHER -> Numeral(k),
      << IF pattern = "gaps" /\ k % 3 = 0 THEN <<>>
         ELSE IF k % 2 = 0 THEN Europe ELSE Asia,
         Petrol,
         IF pattern = "gaps" /\ k % 5 = 0 THEN <<>>
         ELSE IF k % 3 = 0 THEN Manual ELSE Automatic,
         IF k % 4 \in {1, 2} THEN High ELSE Low >>)

AggregateTables ==
    {RawTable([k \in 1..n |-> AggregateRow(k, pattern)]) :
       n \in 0..MaxModels, pattern \in Patterns}

InitAggregate ==
    /\ pc = Head(StageOrder)
    /\ run = 1
    /\ script = BmwPy
    /\ \E tbl \in AggregateTables :
         disk = [exists |-> {CSV_FILE_CANDIDATES[1]}, content |-> tbl]
    /\ CSV_FILE = "None"
    /\ df = NoFrame
    /\ conn = "none"
    /\ queries = NoQueries
    /\ engine_trend = <<>>
    /\ console = <<>>
    /\ traceback = ""
    /\ exit_status = <<>>
    /\ files = NoFiles
    /\ db = NoRelations

NextAggregate ==
    \/ ResolveFound \/ LoadReturns \/ Coerce \/ DeriveMetrics
    \/ RawExport \/ ToSql
    \/ QueriesReturn \/ QueriesRaise
    \/ AnalysisReturns \/ AnalysisFault

SpecAggregate == InitAggregate /\ [][NextAggregate]_vars

(***************************************************************************)
(* Specification of the aggregation step alone, over snapshots of one      *)
(* region whose transmission kinds have the row counts 1, 3, 5, ... with   *)
(* the last kind taking the rest of a given total.  The state drawn is the *)
(* one the run is in after df.to_sql for such an input file.               *)
(***************************************************************************)
\* "TA", "TB", ...
TransmissionName(j) == <<"T", Alphabet[11 + j]>>

ShareTotals == {160, 800}

\* row counts per transmission kind
ShareCounts ==
    {[j \in 1..n |-> 2 * j - 1] : n \in 1..MaxTransmissions}
    \cup {[j \in 1..q[1] |-> IF j < q[1] THEN 2 * j - 1
                             ELSE q[2] - (q[1] - 1) * (q[1] - 1)] :
            q \in {r \in (1..MaxTransmissions) \X ShareTotals :
                     r[2] - (r[1] - 1) * (r[1] - 1) > 2 * r[1] - 1}}

\* the kind of the k-th row: rows of one kind are consecutive
KindOfRow(counts, k) ==
    IF k > (Len(counts) - 1) * (Len(counts) - 1) THEN Len(counts)
    ELSE CHOOSE j \in 1..Len(counts) : (j - 1) * (j - 1) < k /\ k <= j * j

RowCount(counts) == (Len(counts) - 1) * (Len(counts) - 1) + counts[Len(counts)]

ShareFile(counts) ==
    RawTable([k \in 1..RowCount(counts) |->
                [RowX5 EXCEPT !["Transmission"] = TransmissionName(KindOfRow(counts, k))]])

\* the enriched table of ShareFile(counts)
ShareFrame(counts) ==
    [cols |-> InputCols \cup DerivedCols,
     rows |-> [k \in 1..RowCount(counts) |->
                 [Derive(CoerceColumns(read_csv(RawTable(<<RowX5>>)), numeric_cols)).rows[1]
                    EXCEPT !["Transmission"] = Str(TransmissionName(KindOfRow(counts, k)))]]]

InitShares ==
    /\ pc = "run_sql_queries"
    /\ run = 1
    /\ script = BmwPy
    /\ \E counts \in ShareCounts :
         /\ disk = [exists |-> {CSV_FILE_CANDIDATES[1]}, content |-> ShareFile(counts)]
         /\ df = ShareFrame(counts)
         /\ db = to_sql(NoRelations, "bmw_sales", ShareFrame(counts))
    /\ CSV_FILE = CSV_FILE_CANDIDATES[1]
    /\ conn = "open"
    /\ queries = NoQueries
    /\ engine_trend = <<>>
    /\ console = <<"BMW SALES DATA DEEP DIVE ANALYSIS (Enhanced Visuals)",
                   "1. DATA OVERVIEW", "Dataset shape:", "Total records:",
                   "Total sales volume:", "Raw data saved", "SQLite database created">>
    /\ traceback = ""
    /\ exit_status = <<>>
    /\ files = Written(DB_FILE, 1, 0) @@ Written(raw_excel_path, 1, 0)

NextShares == QueriesReturn \/ QueriesRaise

SpecShares == InitShares /\ [][NextShares]_vars

(***************************************************************************)
(* The second variant of the script, 'BMW SALES DATA DEEP DIVE ANALYSIS    *)
(* SUITE.py', from its start to the end of run_sql_queries, translated     *)
(* from its own text.  pandas and SQLite behave for it as for bmw.py.      *)
(***************************************************************************)
Suite_CSV_FILE_CANDIDATES ==
    <<"BMW sales data (2010-2024) (1).csv", "BMW sales data (2010-2024) (1)">>

Suite_ResolveFound ==
    /\ pc = "resolve"
    /\ FirstExisting(Suite_CSV_FILE_CANDIDATES, disk.exists) # "None"
    /\ CSV_FILE' = FirstExisting(Suite_CSV_FILE_CANDIDATES, disk.exists)
    /\ Emit(<<"BMW SALES DATA DEEP DIVE ANALYSIS">>)
    /\ pc' = After("resolve")
    /\ UNCHANGED <<script, engine_trend, run, disk, df, conn, queries, traceback,
                   exit_status, files, db>>

Suite_LoadReturns ==
    /\ pc = "load_data"
    /\ SumIsNumber(read_csv(disk.content), "Sales_Volume")
    /\ df' = read_csv(disk.content)
    /\ Emit(<<"1. DATA OVERVIEW", "Dataset shape:", "Total records:",
              "Total sales volume:">>)
    /\ pc' = After("load_data")
    /\ UNCHANGED <<script, engine_trend, run, disk, CSV_FILE, conn, queries, traceback,
                   exit_status, files, db>>

Suite_numeric_cols == <<"Year", "Engine_Size_L", "Mileage_KM", "Price_USD", "Sales_Volume">>

Suite_Coerce ==
    /\ pc = "coerce"
    /\ df' = CoerceColumns(df, Suite_numeric_cols)
    /\ pc' = After("coerce")
    /\ UNCHANGED <<script, engine_trend, run, disk, CSV_FILE, conn, queries, console,
                   traceback, exit_status, files, db>>

Suite_Price_per_KM(row) == Divide(row["Price_USD"], Add(row["Mileage_KM"], 1))

Suite_Vehicle_Age_2025(row) ==
    IF IsNaN(row["Year"]) THEN NaN ELSE Num(2025 - row["Year"].v)

Suite_Vehicle_Age(row) ==
    IF IsNaN(row["Year"]) THEN NaN ELSE Num(2024 - row["Year"].v)

Suite_categorize_model(model) ==
    IF IsNaN(model) THEN "Other"
    ELSE IF startswith(model.v, "X") THEN "SUV"
    ELSE IF startswith(model.v, "i") THEN "i-Series"
    ELSE IF startswith(model.v, "M") THEN "M-Series"
    ELSE "Sedan"

Suite_DeriveRow(row) ==
    [col \in DOMAIN row \cup {"Price_per_KM", "Vehicle_Age", "Model_Segment"} |->
       IF col = "Price_per_KM" THEN Suite_Price_per_KM(row)
       ELSE IF col = "Vehicle_Age" THEN Suite_Vehicle_Age(row)
       ELSE IF col = "Model_Segment" THEN Cat(Suite_categorize_model(row["Model"]))
       ELSE row[col]]

Suite_Derive(frame) ==
    [cols |-> frame.cols \cup {"Price_per_KM", "Vehicle_Age", "Model_Segment"},
     rows |-> [k \in 1..Len(frame.rows) |-> Suite_DeriveRow(frame.rows[k])]]

Suite_DeriveMetrics ==
    /\ pc = "derive"
    /\ df' = Suite_Derive(df)
    /\ pc' = After("derive")
    /\ UNCHANGED <<script, engine_trend, run, disk, CSV_FILE, conn, queries, console,
                   traceback, exit_status, files, db>>

Suite_RawExport ==
    /\ pc = "raw_export"
    /\ files' = Written(Path("Raw_BMW_Data.xlsx"), run, 0) @@ files
    /\ Emit(<<"Raw data saved">>)
    /\ pc' = After("raw_export")
    /\ UNCHANGED <<script, engine_trend, run, disk, CSV_FILE, df, conn, queries,
                   traceback, exit_status, db>>

Suite_ToSql ==
    /\ pc = "to_sql"
    /\ conn' = "open"
    /\ files' = Written(Path("BMW_Sales.db"), run, 0) @@ files
    /\ db' = to_sql(db, "bmw_sales", df)
    /\ Emit(<<"SQLite database created">>)
    /\ pc' = After("to_sql")
    /\ UNCHANGED <<script, engine_trend, run, disk, CSV_FILE, df, queries, traceback,
                   exit_status>>

Suite_top_models(rows) ==
    {Limit(seq, 10) : seq \in Orderings(
        {[Model |-> key[1],
          Total_Sales |-> SqlSum(rows, GroupOf(rows, <<"Model">>, key), "Sales_Volume"),
          Avg_Price |-> SqlAvg(rows, GroupOf(rows, <<"Model">>, key), "Price_USD"),
          Transaction_Count |-> SqlCount(GroupOf(rows, <<"Model">>, key))] :
            key \in GroupKeys(rows, <<"Model">>)},
        LAMBDA a, b : SqlLess(b.Total_Sales, a.Total_Sales))}

Suite_regional_performance(rows) ==
    Orderings(
        {[Region |-> key[1],
          Total_Sales |-> SqlSum(rows, GroupOf(rows, <<"Region">>, key), "Sales_Volume"),
          Avg_Price |-> SqlAvg(rows, GroupOf(rows, <<"Region">>, key), "Price_USD"),
          Avg_Engine |-> SqlAvg(rows, GroupOf(rows, <<"Region">>, key), "Engine_Size_L"),
          Transaction_Count |-> SqlCount(GroupOf(rows, <<"Region">>, key)),
          High_Sales_Count |-> HighCount(rows, GroupOf(rows, <<"Region">>, key))] :
            key \in GroupKeys(rows, <<"Region">>)},
        LAMBDA a, b : SqlLess(b.Total_Sales, a.Total_Sales))

Suite_fuel_analysis(rows) ==
    Orderings(
        {[Fuel_Type |-> key[1],
          Total_Sales |-> SqlSum(rows, GroupOf(rows, <<"Fuel_Type">>, key), "Sales_Volume"),
          Avg_Price |-> SqlAvg(rows, GroupOf(rows, <<"Fuel_Type">>, key), "Price_USD"),
          Transaction_Count |-> SqlCount(GroupOf(rows, <<"Fuel_Type">>, key))] :
            key \in GroupKeys(rows, <<"Fuel_Type">>)},
        LAMBDA a, b : SqlLess(b.Total_Sales, a.Total_Sales))

Suite_yearly_trends(rows) ==
    Orderings(
        {[Year |-> key[1],
          Total_Sales |-> SqlSum(rows, GroupOf(rows, <<"Year">>, key), "Sales_Volume"),
          Avg_Price |-> SqlAvg(rows, GroupOf(rows, <<"Year">>, key), "Price_USD"),
          Avg_Mileage |-> SqlAvg(rows, GroupOf(rows, <<"Year">>, key), "Mileage_KM"),
          Avg_Engine |-> SqlAvg(rows, GroupOf(rows, <<"Year">>, key), "Engine_Size_L"),
          Transaction_Count |-> SqlCount(GroupOf(rows, <<"Year">>, key))] :
            key \in GroupKeys(rows, <<"Year">>)},
        LAMBDA a, b : SqlLess(a.Year, b.Year))

Suite_transmission_by_region(rows) ==
    Orderings(
        {[Region |-> key[1],
          Transmission |-> key[2],
          Count |-> SqlCount(GroupOf(rows, <<"Region", "Transmission">>, key)),
          Pct |-> RoundPct(Cardinality(GroupOf(rows, <<"Region", "Transmission">>, key)),
                           Cardinality(GroupOf(rows, <<"Region">>, <<key[1]>>)))] :
            key \in GroupKeys(rows, <<"Region", "Transmission">>)},
        LAMBDA a, b : \/ SqlLess(a.Region, b.Region)
                      \/ a.Region = b.Region /\ SqlLess(b.Count, a.Count))

Suite_run_sql_queries(database) ==
    [top_models : Suite_top_models(database["bmw_sales"].rows),
     regional_performance : Suite_regional_performance(database["bmw_sales"].rows),
     fuel_analysis : Suite_fuel_analysis(database["bmw_sales"].rows),
     yearly_trends : Suite_yearly_trends(database["bmw_sales"].rows),
     transmission_by_region : Suite_transmission_by_region(database["bmw_sales"].rows)]

Suite_QueriesReturn ==
    /\ pc = "run_sql_queries"
    /\ "bmw_sales" \in DOMAIN db
    /\ queries' \in Suite_run_sql_queries(db)
    /\ pc' = After("run_sql_queries")
    /\ UNCHANGED <<script, engine_trend, run, disk, CSV_FILE, df, conn, console,
                   traceback, exit_status, files, db>>

Suite_QueriesRaise ==
    /\ pc = "run_sql_queries"
    /\ Raise("run_sql_queries")
    /\ UNCHANGED <<script, engine_trend, run, disk, CSV_FILE, df, conn, queries, console,
                   files, db>>

(***************************************************************************)
(* Specification of one run of either variant, up to the end of            *)
(* run_sql_queries, over the same input files.                             *)
(***************************************************************************)
InitVariants ==
    /\ script \in {BmwPy, Suite}
    /\ pc = Head(StageOrder)
    /\ run = 1
    /\ \E tbl \in AggregateTables :
         disk = [exists |-> {CSV_FILE_CANDIDATES[1]}, content |-> tbl]
    /\ CSV_FILE = "None"
    /\ df = NoFrame
    /\ conn = "none"
    /\ queries = NoQueries
    /\ engine_trend = <<>>
    /\ console = <<>>
    /\ traceback = ""
    /\ exit_status = <<>>
    /\ files = NoFiles
    /\ db = NoRelations

NextVariants ==
    \/ /\ script = BmwPy
       /\ \/ ResolveFound \/ LoadReturns \/ Coerce \/ DeriveMetrics
          \/ RawExport \/ ToSql \/ QueriesReturn \/ QueriesRaise
    \/ /\ script = Suite
       /\ \/ Suite_ResolveFound \/ Suite_LoadReturns \/ Suite_Coerce
          \/ Suite_DeriveMetrics \/ Suite_RawExport \/ Suite_ToSql
          \/ Suite_QueriesReturn \/ Suite_QueriesRaise

SpecVariants == InitVariants /\ [][NextVariants]_vars

(***************************************************************************)
(* Vocabulary of the properties.                                           *)
(***************************************************************************)
Printed(line) == \E k \in 1..Len(console) : console[k] = line

\* the file at path was written by the current run
WrittenThisRun(path) == path \in DOMAIN files /\ files[path].run = run

PdfThisRun == \E p \in DOMAIN files : IsPdf(p) /\ files[p].run = run

\* the numeric coercion loop of the current run has run on df
Coerced == df.cols # {} /\ pc # "coerce"

\* the three derived columns of the current run are in df
Derived == DerivedCols \subseteq df.cols

RawCell(k, col) == disk.content.rows[k][col]

(***************************************************************************)
(* C1: the load stage (load_data, then the coercion loop) never raises     *)
(* because of non-numeric text in a numeric column, and after coercion     *)
(* every non-empty cell of a numeric column that is not numeric text is a  *)
(* missing value.                                                          *)
(***************************************************************************)
C1_LoadNeverAborts ==
    /\ traceback # "load_data"
    /\ Coerced =>
         \A k \in 1..Len(df.rows) : \A col \in NumericColSet :
            ~IsNumericText(RawCell(k, col)) => IsNaN(df.rows[k][col])

(***************************************************************************)
(* C2: the candidates are tried in order (.csv first) and the first        *)
(* existing one is used; the run ends with status 1 after printing both    *)
(* candidate paths if and only if neither exists, and then nothing later   *)
(* has run: no table, no connection, no summary table, no file written.    *)
(***************************************************************************)
Resolved == pc \notin {"idle", "resolve"}

PathsPrinted == \A k \in 1..Len(CSV_FILE_CANDIDATES) : Printed(CSV_FILE_CANDIDATES[k])

C2_InputResolution ==
    Resolved =>
      /\ CSV_FILE_CANDIDATES[1] \in disk.exists => CSV_FILE = CSV_FILE_CANDIDATES[1]
      /\ (CSV_FILE_CANDIDATES[1] \notin disk.exists
            /\ CSV_FILE_CANDIDATES[2] \in disk.exists)
           => CSV_FILE = CSV_FILE_CANDIDATES[2]
      /\ (exit_status = <<1>> /\ PathsPrinted) <=> (disk.exists = {})
      /\ disk.exists = {} =>
           /\ pc = "exited"
           /\ df = NoFrame /\ conn = "none" /\ queries = NoQueries
           /\ \A p \in DOMAIN files : files[p].run # run

\* a second run finds no input file while the outputs of the first remain
C2_Witness ==
    /\ pc = "exited"
    /\ exit_status = <<1>>
    /\ excel_file \in DOMAIN files

(***************************************************************************)
(* Stages completed by the current run, read off what it left behind.      *)
(***************************************************************************)
AggregationDone == queries # NoQueries

AnalysisDone == Printed("Engine size trend (2010-2024):")

\* both the interactive dashboard and the static image export were attempted
RenderingDone ==
    /\ WrittenThisRun(dashboard_html_path)
    /\ Printed("Static dashboard image saved")
         \/ Printed("Could not save static dashboard image.")

(***************************************************************************)
(* C3 as stated: every persist step of a run (raw export, SQLite snapshot, *)
(* workbook) happens after aggregation, analysis and rendering have        *)
(* completed in that run.                                                  *)
(***************************************************************************)
C3_PersistAfterRendering ==
    \A p \in {raw_excel_path, DB_FILE, excel_file} :
       WrittenThisRun(p) => AggregationDone /\ AnalysisDone /\ RenderingDone

(***************************************************************************)
(* C3 amended: a run executes load, derive, raw export, SQLite snapshot,   *)
(* aggregate, analyze, render, workbook, PDF report in this order.  The    *)
(* raw export and the snapshot are written before aggregation, which reads *)
(* the snapshot written by the same run; the workbook and the PDF report   *)
(* are written only after aggregation, analysis and rendering.             *)
(***************************************************************************)
C3_StageOrder ==
    /\ WrittenThisRun(raw_excel_path) => Derived
    /\ WrittenThisRun(DB_FILE) => WrittenThisRun(raw_excel_path)
    /\ AggregationDone =>
         /\ WrittenThisRun(DB_FILE)
         /\ queries \in run_sql_queries(db)
         /\ db["bmw_sales"] = df
    /\ AnalysisDone => AggregationDone
    /\ WrittenThisRun(dashboard_html_path) => AnalysisDone
    /\ WrittenThisRun(excel_file) => RenderingDone
    /\ PdfThisRun => WrittenThisRun(excel_file)

\* the snapshot is on disk while no summary table has been computed yet
C3_Witness ==
    /\ pc = "run_sql_queries"
    /\ WrittenThisRun(raw_excel_path)
    /\ WrittenThisRun(DB_FILE)
    /\ ~AggregationDone

(***************************************************************************)
(* C4 as stated: the output directory holds one file per sink kind, so at  *)
(* most one PDF report, however many runs there were.                      *)
(***************************************************************************)
C4_OneFilePerSink ==
    \A p, q \in DOMAIN files : (IsPdf(p) /\ IsPdf(q)) => p = q

(***************************************************************************)
(* C4 amended: the raw export, the database, the dashboard, the static     *)
(* image and the workbook have fixed names, so the file a run writes       *)
(* replaces the one of every earlier run and there is at most one file of  *)
(* each; the PDF report is named by the timestamp of its generation, so a  *)
(* run replaces only a report of the same timestamp and the reports of     *)
(* earlier runs with another timestamp stay in the directory.              *)
(***************************************************************************)
FixedPaths ==
    {raw_excel_path, DB_FILE, dashboard_html_path, dashboard_png_path, excel_file}

C4_FixedNamesOverwritten ==
    /\ \A p \in DOMAIN files :
         /\ IsPdf(p) \/ p \in FixedPaths
         /\ IsPdf(p) => p = pdf_path(p.stamp) /\ p.stamp \in Timestamps
         /\ files[p].run \in 1..run
    /\ pc \in {"to_sql", "run_sql_queries", "analysis"} => WrittenThisRun(raw_excel_path)
    /\ AggregationDone => WrittenThisRun(raw_excel_path) /\ WrittenThisRun(DB_FILE)
    /\ Printed("Static dashboard image saved") => WrittenThisRun(dashboard_png_path)
    /\ pc \in {"summary", "close", "done"} =>
         /\ WrittenThisRun(raw_excel_path) /\ WrittenThisRun(DB_FILE)
         /\ WrittenThisRun(dashboard_html_path) /\ WrittenThisRun(excel_file)
         /\ PdfThisRun

\* the reports of two runs are both in the directory
C4_Witness ==
    \E p, q \in DOMAIN files :
       /\ IsPdf(p) /\ IsPdf(q)
       /\ files[p].run = 1 /\ files[q].run = 2
       /\ files[raw_excel_path].run = 2

(***************************************************************************)
(* C5: a failure of the static image export is caught: no run ends with an *)
(* exception raised by it; the run prints the warning, goes on with the    *)
(* workbook, the PDF report and the final summary, and ends normally with  *)
(* the database connection closed.                                         *)
(***************************************************************************)
ImageWarned == Printed("Could not save static dashboard image.")

C5_NoAbort ==
    /\ traceback # "write_image"
    /\ pc = "crashed" => ~WrittenThisRun(dashboard_html_path)
    /\ ImageWarned =>
         /\ pc \in {"workbook", "pdf", "summary", "close", "done"}
         /\ pc \in {"pdf", "summary", "close", "done"} => WrittenThisRun(excel_file)
         /\ pc \in {"summary", "close", "done"} => PdfThisRun
         /\ pc \in {"close", "done"} => Printed("ANALYSIS COMPLETE")
         /\ pc = "done" => conn = "closed" /\ exit_status = <<0>>

C5_ImageFailureTolerated ==
    /\ []C5_NoAbort
    /\ ImageWarned ~> (pc = "done" /\ conn = "closed" /\ exit_status = <<0>>)

\* a run whose image export failed has ended normally
C5_Witness ==
    /\ ImageWarned
    /\ pc = "done"
    /\ ~WrittenThisRun(dashboard_png_path)

(***************************************************************************)
(* C6: a PDF report embeds a dashboard image only if the image export of   *)
(* the run that generated the report succeeded, i.e. the embedded image is *)
(* the one written by that same run.                                       *)
(***************************************************************************)
C6_PdfImageFromSameRun ==
    \A p \in DOMAIN files :
       (IsPdf(p) /\ files[p].image # 0) => files[p].image = files[p].run

(***************************************************************************)
(* C7: a fault raised during aggregation or statistical analysis is caught *)
(* nowhere.  The run ends there with status 1; the raw export and the      *)
(* snapshot it wrote before the fault stay on disk; it writes no           *)
(* dashboard, image, workbook or PDF report and prints no final summary.   *)
(* A table the analysis cannot handle never gets past the analysis.        *)
(***************************************************************************)
C7_FaultLeavesPartialOutputs ==
    /\ traceback \in {"run_sql_queries", "perform_statistical_analysis"} =>
         /\ pc = "crashed"
         /\ exit_status = <<1>>
         /\ WrittenThisRun(raw_excel_path)
         /\ WrittenThisRun(DB_FILE)
         /\ db["bmw_sales"] = df
         /\ \A p \in DOMAIN files \ {raw_excel_path, DB_FILE} : files[p].run # run
         /\ ~Printed("KEY FINDINGS SUMMARY")
    /\ (Derived /\ AnalysisRaises(df)) =>
         pc \in {"raw_export", "to_sql", "run_sql_queries", "analysis", "crashed"}

\* the analysis of a second run fails; the workbook of the first run remains
C7_Witness ==
    /\ traceback = "perform_statistical_analysis"
    /\ WrittenThisRun(raw_excel_path)
    /\ excel_file \in DOMAIN files

(***************************************************************************)
(* C8: once a run has written the snapshot, the relation bmw_sales is the  *)
(* only relation of the database and has the row count and the column set  *)
(* of that run's in-memory table, whatever an earlier run left there.      *)
(***************************************************************************)
C8_SnapshotIsLatestTable ==
    /\ DOMAIN db \subseteq {"bmw_sales"}
    /\ WrittenThisRun(DB_FILE) =>
         /\ "bmw_sales" \in DOMAIN db
         /\ Len(db["bmw_sales"].rows) = Len(df.rows)
         /\ db["bmw_sales"].cols = df.cols

\* a second run has replaced the relation written by a complete first run
C8_Witness ==
    /\ WrittenThisRun(DB_FILE)
    /\ Len(df.rows) = 1
    /\ excel_file \in DOMAIN files
    /\ files[excel_file].run # run

(***************************************************************************)
(* C9: for every row with non-missing price and distance the divisor       *)
(* Mileage_KM + 1 is not zero and Price_per_KM is exactly                  *)
(* Price_USD / (Mileage_KM + 1).                                           *)
(***************************************************************************)
C9_PricePerKmNeverDividesByZero ==
    Derived =>
      \A k \in 1..Len(df.rows) :
         LET price == df.rows[k]["Price_USD"]
             km == df.rows[k]["Mileage_KM"]
         IN (IsNum(price) /\ IsNum(km)) =>
              /\ km.v + 1 # 0
              /\ df.rows[k]["Price_per_KM"] = Quot(price.v, km.v + 1)

(***************************************************************************)
(* C10: the segment of a row is decided by the first character of its      *)
(* model identifier alone, case-sensitively: X gives SUV, i gives          *)
(* i-Series, M gives M-Series, any other first character gives Sedan, and  *)
(* a missing identifier gives Other.                                       *)
(***************************************************************************)
SegmentOfFirstChar(ch) ==
    CASE ch = "X" -> "SUV"
      [] ch = "i" -> "i-Series"
      [] ch = "M" -> "M-Series"
      [] OTHER -> "Sedan"

C10_SegmentByFirstCharacter ==
    Derived =>
      \A k \in 1..Len(df.rows) :
         LET model == df.rows[k]["Model"]
             segment == df.rows[k]["Model_Segment"]
         IN /\ IsNaN(model) => segment = Cat("Other")
            /\ (~IsNaN(model) /\ Len(model.v) > 0) =>
                 segment = Cat(SegmentOfFirstChar(model.v[1]))

\* "X5" is an SUV while "x5" in the same table is a Sedan
C10_Witness ==
    /\ Derived
    /\ \E k, j \in 1..Len(df.rows) :
         /\ df.rows[k]["Model"] = Str(<<"X", "5">>)
         /\ df.rows[k]["Model_Segment"] = Cat("SUV")
         /\ df.rows[j]["Model"] = Str(<<"x", "5">>)
         /\ df.rows[j]["Model_Segment"] = Cat("Sedan")

C12_DeriveStep ==
    pc = "derive" =>
      /\ Len(df'.rows) = Len(df.rows)
      /\ df.cols \subseteq df'.cols
      /\ df'.cols \ df.cols = {"Price_per_KM", "Vehicle_Age", "Model_Segment"}
      /\ \A k \in 1..Len(df.rows) :
           /\ DOMAIN df'.rows[k] = df'.cols
           /\ \A col \in df.cols : df'.rows[k][col] = df.rows[k][col]
           /\ IsNum(df.rows[k]["Year"]) =>
                df'.rows[k]["Vehicle_Age"] = Num(2024 - df.rows[k]["Year"].v)

C12_DeriveOnlyAddsColumns == [][C12_DeriveStep]_vars

\* two different rows, one of them with missing cells, have been derived
C12_Witness ==
    /\ Derived
    /\ Len(df.rows) = 2
    /\ df.rows[1] # df.rows[2]
    /\ IsNaN(df.rows[2]["Mileage_KM"])
    /\ df.rows[1]["Vehicle_Age"] = Num(4)

(***************************************************************************)
(* Vocabulary of the summary tables.                                       *)
(***************************************************************************)
\* the values of a column of the enriched table
ValuesOf(col) == {df.rows[k][col] : k \in 1..Len(df.rows)}

\* the rows of the enriched table holding value in column col
RowsWith(col, value) == {k \in 1..Len(df.rows) : df.rows[k][col] = value}

\* the sum of the non-missing Sales_Volume cells of a set of rows
RECURSIVE SalesOf(_)
SalesOf(group) ==
    IF group = {} THEN 0
    ELSE LET k == CHOOSE x \in group : TRUE
         IN (IF IsNum(df.rows[k]["Sales_Volume"]) THEN df.rows[k]["Sales_Volume"].v ELSE 0)
            + SalesOf(group \ {k})

\* the total of a set of rows, missing when none of them has a sales volume
TotalOf(group) ==
    IF \A k \in group : IsNaN(df.rows[k]["Sales_Volume"]) THEN NaN
    ELSE Num(SalesOf(group))

\* a is not below b, a missing total counting as the lowest
NotBelow(a, b) == IsNaN(b) \/ (IsNum(a) /\ IsNum(b) /\ a.v >= b.v)

ModelsListed == {queries.top_models[i].Model : i \in 1..Len(queries.top_models)}

(***************************************************************************)
(* C13: top_models has at most 10 rows, one per distinct model, in         *)
(* non-increasing order of Total_Sales, and no model left out of it has a  *)
(* higher Total_Sales than a model in it.                                  *)
(***************************************************************************)
C13_TopModels ==
    AggregationDone =>
      LET top == queries.top_models
      IN /\ Len(top) <= 10
         /\ Len(top) = 10 \/ ModelsListed = ValuesOf("Model")
         /\ ModelsListed \subseteq ValuesOf("Model")
         /\ \A i, j \in 1..Len(top) :
              i < j => /\ top[i].Model # top[j].Model
                       /\ NotBelow(top[i].Total_Sales, top[j].Total_Sales)
         /\ \A i \in 1..Len(top) : \A m \in ValuesOf("Model") \ ModelsListed :
              NotBelow(top[i].Total_Sales, TotalOf(RowsWith("Model", m)))

\* eleven models, so one of them is left out of the ten rows
C13_Witness ==
    /\ AggregationDone
    /\ Len(queries.top_models) = 10
    /\ Cardinality(ValuesOf("Model")) = 11
    /\ queries.top_models[1].Total_Sales = Num(11)

(***************************************************************************)
(* C14: models with equal Total_Sales appear in top_models in input order, *)
(* the model whose first row comes earlier in the input first, and input   *)
(* order also decides which of them are kept within the ten rows.          *)
(***************************************************************************)
FirstRowWith(col, value) ==
    CHOOSE k \in RowsWith(col, value) : \A j \in RowsWith(col, value) : k <= j

C14_TiesByInputOrder ==
    AggregationDone =>
      LET top == queries.top_models
      IN /\ \A i, j \in 1..Len(top) :
              (i < j /\ top[i].Total_Sales = top[j].Total_Sales) =>
                 FirstRowWith("Model", top[i].Model) < FirstRowWith("Model", top[j].Model)
         /\ \A i \in 1..Len(top) : \A m \in ValuesOf("Model") \ ModelsListed :
              top[i].Total_Sales = TotalOf(RowsWith("Model", m)) =>
                 FirstRowWith("Model", top[i].Model) < FirstRowWith("Model", m)

(***************************************************************************)
(* C15: grouping by model loses no sales volume: the Total_Sales of all    *)
(* model groups, the group of rows without a model included and before     *)
(* the ten-row limit, add up to the sum of Sales_Volume over the enriched  *)
(* table, missing cells adding nothing on either side.                     *)
(***************************************************************************)
RECURSIVE SumOfTotals(_)
SumOfTotals(groups) ==
    IF groups = {} THEN 0
    ELSE LET g == CHOOSE x \in groups : TRUE
         IN (IF IsNum(g.Total_Sales) THEN g.Total_Sales.v ELSE 0)
            + SumOfTotals(groups \ {g})

C15_GroupingLosesNoVolume ==
    AggregationDone =>
      /\ SumOfTotals(ModelGroups(db["bmw_sales"].rows)) = SalesOf(1..Len(df.rows))
      /\ Cardinality(ModelGroups(db["bmw_sales"].rows)) = Cardinality(ValuesOf("Model"))
      /\ Len(queries.top_models) < 10 =>
           SumOfTotals({queries.top_models[i] : i \in 1..Len(queries.top_models)})
             = SalesOf(1..Len(df.rows))

\* a model with one empty and one filled Sales_Volume cell, and rows with no
\* model at all
C15_Witness ==
    /\ AggregationDone
    /\ NaN \in ValuesOf("Model")
    /\ \E m \in ValuesOf("Model") : \E k, j \in RowsWith("Model", m) :
         IsNaN(df.rows[k]["Sales_Volume"]) /\ IsNum(df.rows[j]["Sales_Volume"])
    /\ SalesOf(1..Len(df.rows)) > 0

(***************************************************************************)
(* C16: in top_models, regional_performance, fuel_analysis and             *)
(* yearly_trends, Total_Sales of a group is the sum of its non-missing     *)
(* Sales_Volume cells, and is 0, not a missing value, when every           *)
(* Sales_Volume cell of the group is missing.                              *)
(***************************************************************************)
SumsMissingAsZero(table, col) ==
    \A i \in 1..Len(table) :
       table[i].Total_Sales = Num(SalesOf(RowsWith(col, table[i][col])))

C16_MissingSumsAsZero ==
    AggregationDone =>
      /\ SumsMissingAsZero(queries.top_models, "Model")
      /\ SumsMissingAsZero(queries.regional_performance, "Region")
      /\ SumsMissingAsZero(queries.fuel_analysis, "Fuel_Type")
      /\ SumsMissingAsZero(queries.yearly_trends, "Year")

(***************************************************************************)
(* Vocabulary of the percentage shares.  A Pct cell holds its value in     *)
(* hundredths of a percent over 100.                                       *)
(***************************************************************************)
Abs(x) == IF x < 0 THEN 0 - x ELSE x

\* the rows of transmission_by_region of a region
SharesOf(region) ==
    {i \in 1..Len(queries.transmission_by_region) :
        queries.transmission_by_region[i].Region = region}

RECURSIVE SumOfPct(_)
SumOfPct(shares) ==
    IF shares = {} THEN 0
    ELSE LET i == CHOOSE x \in shares : TRUE
         IN queries.transmission_by_region[i].Pct.v[1] + SumOfPct(shares \ {i})

\* Pct is 100 * Count / (rows of the region) rounded to two decimals: no
\* other multiple of 0.01 is nearer
PctRounded ==
    \A i \in 1..Len(queries.transmission_by_region) :
       LET share == queries.transmission_by_region[i]
           total == Cardinality(RowsWith("Region", share.Region))
       IN /\ share.Pct.v[2] = 100
          /\ 2 * Abs(share.Pct.v[1] * total - 10000 * share.Count.v) <= total

(***************************************************************************)
(* C17 as stated: Pct is 100 * Count / (row count of the region) rounded   *)
(* to 2 decimals, and the Pct values of a region sum to 100 within 0.1,    *)
(* however many transmission kinds the region has.                         *)
(***************************************************************************)
C17_SharesSumTo100 ==
    AggregationDone =>
      /\ PctRounded
      /\ \A region \in ValuesOf("Region") :
           Abs(SumOfPct(SharesOf(region)) - 10000) <= 10

(***************************************************************************)
(* C17: Pct is 100 * Count / (row count of the region) rounded to 2        *)
(* decimals, and the Pct values of a region sum to 100 within 0.005 times  *)
(* the number of transmission kinds of the region.                         *)
(***************************************************************************)
C17_SharesWithinRounding ==
    AggregationDone =>
      /\ PctRounded
      /\ \A region \in ValuesOf("Region") :
           2 * Abs(SumOfPct(SharesOf(region)) - 10000) <= Cardinality(SharesOf(region))

\* 22 transmission kinds whose shares all round up by 0.005: the sum is 100.11
C17_Witness ==
    /\ AggregationDone
    /\ \E region \in ValuesOf("Region") :
         /\ Cardinality(SharesOf(region)) = 22
         /\ SumOfPct(SharesOf(region)) = 10011

(***************************************************************************)
(* C18: the engine-size trend printed by the analysis runs from the mean   *)
(* engine size of the earliest calendar year in the table to that of the   *)
(* latest one, wherever the rows of those years stand in the input.        *)
(***************************************************************************)
YearsPresent ==
    {df.rows[k]["Year"].v : k \in {j \in 1..Len(df.rows) : IsNum(df.rows[j]["Year"])}}

RECURSIVE EngineOf(_)
EngineOf(group) ==
    IF group = {} THEN 0
    ELSE LET k == CHOOSE x \in group : TRUE
         IN df.rows[k]["Engine_Size_L"].v + EngineOf(group \ {k})

\* the mean engine size of the rows of a year that have one
MeanEngineOf(year) ==
    LET group == {k \in RowsWith("Year", Num(year)) : IsNum(df.rows[k]["Engine_Size_L"])}
    IN IF group = {} THEN NaN ELSE Quot(EngineOf(group), Cardinality(group))

C18_TrendByCalendarYear ==
    AnalysisDone =>
      LET earliest == CHOOSE y \in YearsPresent : \A z \in YearsPresent : y <= z
          latest == CHOOSE y \in YearsPresent : \A z \in YearsPresent : y >= z
      IN /\ engine_trend[1] = [key |-> Num(earliest), mean |-> MeanEngineOf(earliest)]
         /\ engine_trend[Len(engine_trend)] =
              [key |-> Num(latest), mean |-> MeanEngineOf(latest)]

\* the first and the last input row are of neither the earliest nor the
\* latest year
C18_Witness ==
    /\ AnalysisDone
    /\ Len(engine_trend) >= 3
    /\ IsNum(df.rows[1]["Year"]) /\ IsNum(df.rows[Len(df.rows)]["Year"])
    /\ \E y, z \in YearsPresent :
         /\ y < df.rows[1]["Year"].v /\ df.rows[1]["Year"].v < z
         /\ y < df.rows[Len(df.rows)]["Year"].v /\ df.rows[Len(df.rows)]["Year"].v < z

(***************************************************************************)
(* C19: regional_performance, fuel_analysis and yearly_trends each split   *)
(* the rows of the enriched table: every Transaction_Count is at least 1   *)
(* and they add up to the row count; High_Sales_Count of a region lies     *)
(* between 0 and its Transaction_Count; and the Count values of a region   *)
(* in transmission_by_region add up to its Transaction_Count.              *)
(***************************************************************************)
RECURSIVE SumColumn(_, _)
SumColumn(table, col) ==
    IF Len(table) = 0 THEN 0
    ELSE Head(table)[col].v + SumColumn(Tail(table), col)

SplitsRows(table) ==
    /\ \A i \in 1..Len(table) : table[i].Transaction_Count.v >= 1
    /\ SumColumn(table, "Transaction_Count") = Len(df.rows)

C19_SummaryTablesPartitionRows ==
    AggregationDone =>
      /\ SplitsRows(queries.regional_performance)
      /\ SplitsRows(queries.fuel_analysis)
      /\ SplitsRows(queries.yearly_trends)
      /\ \A i \in 1..Len(queries.regional_performance) :
           LET region == queries.regional_performance[i]
           IN /\ 0 <= region.High_Sales_Count.v
              /\ region.High_Sales_Count.v <= region.Transaction_Count.v
              /\ SumColumn(SelectSeq(queries.transmission_by_region,
                                     LAMBDA share : share.Region = region.Region),
                           "Count") = region.Transaction_Count.v

\* three regions, one of them the rows without a region, one with both
\* transmission kinds and with high and low sales
C19_Witness ==
    /\ AggregationDone
    /\ Len(queries.regional_performance) = 3
    /\ \E i \in 1..3 : IsNaN(queries.regional_performance[i].Region)
    /\ \E i \in 1..3 :
         /\ Cardinality(SharesOf(queries.regional_performance[i].Region)) >= 2
         /\ 0 < queries.regional_performance[i].High_Sales_Count.v
         /\ queries.regional_performance[i].High_Sales_Count.v
              < queries.regional_performance[i].Transaction_Count.v

(***************************************************************************)
(* C20: on the same input file, 'BMW SALES DATA DEEP DIVE ANALYSIS         *)
(* SUITE.py' produces what bmw.py produces: the same coerced table, the    *)
(* same enriched table with the same three derived columns, and the same   *)
(* five summary tables (names, rows, values and row order).                *)
(***************************************************************************)
\* what bmw.py makes of the input file
BmwCoerced == CoerceColumns(read_csv(disk.content), numeric_cols)
BmwEnriched == Derive(BmwCoerced)

C20_VariantsAgree ==
    script = Suite =>
      /\ (Coerced /\ ~Derived) => df = BmwCoerced
      /\ Derived => df = BmwEnriched
      /\ "bmw_sales" \in DOMAIN db => db = to_sql(NoRelations, "bmw_sales", BmwEnriched)
      /\ AggregationDone =>
           /\ queries \in run_sql_queries(db)
           /\ Suite_run_sql_queries(db) = run_sql_queries(db)

\* the second variant has aggregated an input file of eleven rows with empty
\* cells, and of more than ten models
C20_Witness ==
    /\ script = Suite
    /\ AggregationDone
    /\ Len(df.rows) = 11
    /\ \/ NaN \in ValuesOf("Sales_Volume")
       \/ Len(queries.top_models) = 10

====
